---- MODULE Spec2Model ----
(***************************************************************************)
(* Model of the SDF skeleton loader of dart/utils/sdf/SdfParser.cpp:       *)
(* readAllBodyNodes and readAllJoints build the link map and the joint     *)
(* registry, and the loop of readSkeleton, with getNextJointAndNodePair    *)
(* and createPair, assembles the skeleton from them.                       *)
(*                                                                         *)
(* Every variable is a function of the invocation: each call of            *)
(* readSkeleton owns its maps, its cursor and its skeleton.                *)
(***************************************************************************)
EXTENDS Integers, Sequences, FiniteSets, TLC

\* Number of <link> elements and of <joint> elements one model holds at most.
MaxLinks == 3
MaxJoints == 2

\* sdfJoints.end() / sdfBodyNodes.end(), and the null BodyNode pointer.
End == "<end>"
NullBody == "<null>"

\* Names the <link> elements carry, and the link types readSoftBodyNode or a
\* derived reader may set ("" is the rigid BodyNode).
LinkNames == {"A", "B", "C", "world"}
LinkTypes == {"", "soft", "bogus"}
LinkElems == [name : LinkNames, type : LinkTypes]

\* The SDFJoint values handed to readAllJoints. readSkeleton's loop,
\* getNextJointAndNodePair and createPair take the JointMap and the BodyMap as
\* arguments and handle every content of them (a parent that is no link, a
\* child that is no link, "world" and the empty name), so the records range
\* over all of these.
JointNames == {"J1"}
JointTypes == {"revolute", "bogus"}
ParentNames == {"", "world", "A", "B", "C"}
ChildNames == {"", "A", "B", "C", "world"}
JointRecords ==
  [name : JointNames, type : JointTypes, parentName : ParentNames, childName : ChildNames]

\* std::map<std::string, ...> iterates its keys in ascending byte order.
NameRank(n) ==
  CASE n = "" -> 0
    [] n = "A" -> 1
    [] n = "B" -> 2
    [] n = "C" -> 3
    [] n = "world" -> 4
    [] n = "z" -> 5

VARIABLES
  pc,            \* position of each invocation of readSkeleton
  nLinks,        \* <link> elements enumerated so far
  jointsRead,    \* the SDFJoint values of the <joint> elements enumerated so far
  sdfBodyNodes,  \* BodyMap: link name -> SDFBodyNode
  sdfJoints,     \* JointMap: child link name -> SDFJoint (the pending joints)
  registry,      \* the JointMap as readAllJoints returned it
  it,            \* the JointMap iterator of the loop
  newSkeleton,   \* the body nodes of the Skeleton, in creation order
  dterr,         \* the messages written to dterr and dtwarn
  aborted,       \* the loop was left through a break
  ret,           \* the value readSkeleton returned
  linkQueue,     \* <link> elements of a given document not yet enumerated
  jointQueue,    \* <joint> elements of a given document not yet enumerated
  path,          \* Uri::removeDotSegments: the argument _path
  input,         \* Uri::removeDotSegments: the input buffer
  output,        \* Uri::removeDotSegments: the output buffer
  upc,           \* Uri::removeDotSegments: position of the call
  mCollisionNodes,        \* BulletCollisionDetector: the registered collision nodes
  mBulletCollisionWorld,  \* the body nodes whose collision objects are in the Bullet world
  mContacts,     \* BulletCollisionDetector: the list of contacts
  colliding,     \* the colliding flag of each body node
  manifolds,     \* the contact manifolds of the latest detection
  lastCall,      \* the latest call made on the detector
  detected,      \* the value detectCollision returned last
  discarded      \* the number of contacts the latest detection cleared

sdfVars ==
  <<pc, nLinks, jointsRead, sdfBodyNodes, sdfJoints, registry, it, newSkeleton, dterr,
    aborted, ret, linkQueue, jointQueue>>

uriVars == <<path, input, output, upc>>

bulletVars ==
  <<mCollisionNodes, mBulletCollisionWorld, mContacts, colliding, manifolds, lastCall,
    detected, discarded>>

vars == <<sdfVars, uriVars, bulletVars>>

----------------------------------------------------------------------------
\* Containers

\* Mutant of Begin: the map iterates its keys in descending order.
BeginDescending(m) ==
  IF DOMAIN m = {} THEN End
  ELSE CHOOSE k \in DOMAIN m : \A l \in DOMAIN m : NameRank(k) >= NameRank(l)

\* m.begin(): the smallest key, or m.end().
Begin(m) ==
  IF DOMAIN m = {} THEN End
  ELSE CHOOSE k \in DOMAIN m : \A l \in DOMAIN m : NameRank(k) <= NameRank(l)

Find(m, key) == IF key \in DOMAIN m THEN key ELSE End

Insert(m, key, val) == [k \in DOMAIN m \cup {key} |-> IF k = key THEN val ELSE m[k]]

\* Mutant of Erase: the first entry of the map goes with the erased one.
EraseFirstToo(m, key) == [k \in DOMAIN m \ {key, Begin(m)} |-> m[k]]

Erase(m, key) == [k \in DOMAIN m \ {key} |-> m[k]]

EmptyMap == [k \in {} |-> 0]

Msg(kind, name) == [kind |-> kind, name |-> name]

\* Mutant of getBodyNode: the name is looked up among the parsed links instead
\* of the body nodes created so far.
getBodyNodeAmongLinks(skeleton, name) ==
  IF name \in DOMAIN sdfBodyNodes[1] THEN name ELSE NullBody

\* Mutant of getBodyNode: no body node is ever found.
getBodyNodeNever(skeleton, name) == NullBody

\* Skeleton::getBodyNode(name): the body node of that name, or nullptr.
getBodyNode(skeleton, name) ==
  IF \E k \in 1..Len(skeleton) : skeleton[k].name = name THEN name ELSE NullBody


----------------------------------------------------------------------------
\* Pair factory

\* The joint types createJointAndNodePair instantiates; any other type makes it
\* report the type and return a null pair.
SupportedJointTypes ==
  {"fixed", "prismatic", "revolute", "screw", "revolute2", "ball", "translational", "free"}

\* createJointAndNodePair<NodeType>: creates the joint and the body node
\* together under parent and appends the body node to the skeleton.
createJointAndNodePair(skeleton, parent, newJoint, newBody, variant) ==
  IF newJoint.type \in SupportedJointTypes
  THEN [ok |-> TRUE,
        skeleton |-> Append(skeleton, [name |-> newBody.name, parent |-> parent,
                                       variant |-> variant, joint |-> newJoint]),
        err |-> <<>>]
  ELSE [ok |-> FALSE, skeleton |-> skeleton,
        err |-> <<Msg("unsupported joint type", newJoint.type)>>]

\* Mutant of createPair: a link of any other type is built as a rigid BodyNode.
createPairAnyType(skeleton, parent, newJoint, newBody) ==
  IF newBody.type = "soft"
  THEN createJointAndNodePair(skeleton, parent, newJoint, newBody, "SoftBodyNode")
  ELSE createJointAndNodePair(skeleton, parent, newJoint, newBody, "BodyNode")

createPair(skeleton, parent, newJoint, newBody) ==
  IF newBody.type = ""
  THEN createJointAndNodePair(skeleton, parent, newJoint, newBody, "BodyNode")
  ELSE IF newBody.type = "soft"
  THEN createJointAndNodePair(skeleton, parent, newJoint, newBody, "SoftBodyNode")
  ELSE [ok |-> FALSE, skeleton |-> skeleton,
        err |-> <<Msg("unsupported link type", newBody.type)>>]

----------------------------------------------------------------------------
\* getNextJointAndNodePair

\* Mutant of ParentUnresolved: the empty parent name is not exempted.
ParentUnresolvedUnlessWorld(parent, joint) ==
  parent = NullBody /\ joint.parentName # "world"

\* The current joint's parent has to be looked for among the joints and links.
ParentUnresolved(parent, joint) ==
  parent = NullBody /\ joint.parentName # "world" /\ joint.parentName # ""

\* Looks up the child link of the joint at `itv` and returns `result`, or BREAK
\* when the link map does not hold it.
FindChild(itv, joint, parent, bodies, result) ==
  IF Find(bodies, joint.childName) = End
  THEN [result |-> "BREAK", it |-> itv, parent |-> parent, child |-> End,
        err |-> <<Msg("missing child link", joint.childName)>>]
  ELSE [result |-> result, it |-> itv, parent |-> parent, child |-> joint.childName,
        err |-> <<>>]

\* Mutant of FindParentJoint: the joint's own key is looked up instead of its
\* parent's.
FindParentJointOwnKey(joints, joint) == Find(joints, joint.childName)

\* Mutant of FindParentJoint: the pending joints are not consulted.
FindParentJointNever(joints, joint) == End

\* sdfJoints.find(joint.parentName): the pending joint that has the parent link
\* of `joint` as its child.
FindParentJoint(joints, joint) == Find(joints, joint.parentName)

getNextJointAndNodePair(itv, skeleton, joints, bodies) ==
  LET joint == joints[itv]
      parent == getBodyNode(skeleton, joint.parentName)
  IN  IF ParentUnresolved(parent, joint)
      THEN IF FindParentJoint(joints, joint) = End
           THEN IF Find(bodies, joint.parentName) = End
                THEN [result |-> "BREAK", it |-> itv, parent |-> parent, child |-> End,
                      err |-> <<Msg("missing parent link", joint.parentName)>>]
                ELSE FindChild(itv, joint, parent, bodies, "CREATE_FREEJOINT_ROOT")
           ELSE [result |-> "CONTINUE", it |-> FindParentJoint(joints, joint),
                 parent |-> parent, child |-> End, err |-> <<>>]
      ELSE FindChild(itv, joint, parent, bodies, "VALID")

\* Mutant of StartOver: the map iterates in insertion order, so the first joint
\* is the one enumerated first among those still pending.
StartOverFirstRead(i, joints) ==
  LET idx == {k \in 1..Len(jointsRead[i]) : jointsRead[i][k].childName \in DOMAIN joints}
  IN  IF idx = {} THEN End
      ELSE jointsRead[i][CHOOSE k \in idx : \A l \in idx : k <= l].childName

\* Mutant of StartOver: the loop goes on with the joint that follows the erased
\* one (it = sdfJoints.erase(it)).
StartOverAfterErased(i, joints) ==
  LET later == {k \in DOMAIN joints : NameRank(k) > NameRank(it[i])}
  IN  IF it[i] = End THEN Begin(joints)
      ELSE IF later = {} THEN End
      ELSE CHOOSE k \in later : \A l \in later : NameRank(k) <= NameRank(l)

\* it = sdfJoints.begin(), in invocation i.
StartOver(i, joints) == Begin(joints)

----------------------------------------------------------------------------
\* readSkeleton(_skeletonElement, _skelPath), one invocation i

\* The state of invocations I before their first statement; lq and jq give each
\* one the elements of a document still to enumerate (empty: any element may
\* come next).
\* No call of Uri::removeDotSegments is under way.
UriIdle ==
  /\ path = <<>>
  /\ input = <<>>
  /\ output = <<>>
  /\ upc = "idle"

\* The body nodes a collision node can be made for.
BodyNodes == {"b1", "b2", "b3"}

\* The detector as its constructor leaves it: an empty collision world, no
\* collision node and no contact; no body node is flagged.
BulletCollisionDetector ==
  /\ mCollisionNodes = {}
  /\ mBulletCollisionWorld = {}
  /\ mContacts = <<>>
  /\ colliding = [b \in BodyNodes |-> FALSE]
  /\ manifolds = <<>>
  /\ lastCall = "BulletCollisionDetector"
  /\ detected = FALSE
  /\ discarded = 0

\* The locals of readSkeleton at its entry, for the invocations I on the
\* documents lq and jq.
readSkeletonEntry(I, lq, jq) ==
  /\ pc = [i \in I |-> "bodies"]
  /\ nLinks = [i \in I |-> 0]
  /\ jointsRead = [i \in I |-> <<>>]
  /\ sdfBodyNodes = [i \in I |-> EmptyMap]
  /\ sdfJoints = [i \in I |-> EmptyMap]
  /\ registry = [i \in I |-> EmptyMap]
  /\ it = [i \in I |-> End]
  /\ newSkeleton = [i \in I |-> <<>>]
  /\ dterr = [i \in I |-> <<>>]
  /\ aborted = [i \in I |-> FALSE]
  /\ ret = [i \in I |-> [ptr |-> "<unset>", bodies |-> <<>>]]
  /\ linkQueue = [i \in I |-> lq]
  /\ jointQueue = [i \in I |-> jq]

InitOf(I, lq, jq) == readSkeletonEntry(I, lq, jq) /\ UriIdle /\ BulletCollisionDetector

\* Mutant of ReadLink: a link with a name seen before replaces the earlier one.
ReadLinkLastWins(i, body) ==
  /\ pc[i] = "bodies"
  /\ nLinks[i] < MaxLinks
  /\ nLinks' = [nLinks EXCEPT ![i] = @ + 1]
  /\ linkQueue' = [linkQueue EXCEPT ![i] = @ \ {body}]
  /\ sdfBodyNodes' = [sdfBodyNodes EXCEPT ![i] = Insert(@, body.name, body)]
  /\ IF Find(sdfBodyNodes[i], body.name) # End
     THEN dterr' = [dterr EXCEPT ![i] = Append(@, Msg("duplicate link name", body.name))]
     ELSE UNCHANGED dterr
  /\ UNCHANGED <<pc, jointsRead, sdfJoints, registry, it, newSkeleton, aborted, ret, jointQueue>>
  /\ UNCHANGED <<uriVars, bulletVars>>

\* One pass of the loop of readAllBodyNodes over the <link> element `body`.
ReadLink(i, body) ==
  /\ pc[i] = "bodies"
  /\ nLinks[i] < MaxLinks
  /\ nLinks' = [nLinks EXCEPT ![i] = @ + 1]
  /\ linkQueue' = [linkQueue EXCEPT ![i] = @ \ {body}]
  /\ IF Find(sdfBodyNodes[i], body.name) # End
     THEN /\ dterr' = [dterr EXCEPT ![i] = Append(@, Msg("duplicate link name", body.name))]
          /\ UNCHANGED sdfBodyNodes
     ELSE /\ sdfBodyNodes' = [sdfBodyNodes EXCEPT ![i] = Insert(@, body.name, body)]
          /\ UNCHANGED dterr
  /\ UNCHANGED <<pc, jointsRead, sdfJoints, registry, it, newSkeleton, aborted, ret, jointQueue>>
  /\ UNCHANGED <<uriVars, bulletVars>>

\* bodies.next() is false: readAllBodyNodes returns the link map.
EndBodies(i) ==
  /\ pc[i] = "bodies"
  /\ linkQueue[i] = {}
  /\ pc' = [pc EXCEPT ![i] = "joints"]
  /\ UNCHANGED <<nLinks, jointsRead, sdfBodyNodes, sdfJoints, registry, it, newSkeleton,
                 dterr, aborted, ret, linkQueue, jointQueue>>
  /\ UNCHANGED <<uriVars, bulletVars>>

\* Mutant of Claim: a later joint takes the child over from an earlier one.
ClaimLastWins(joints, joint) ==
  IF joint.childName = ""
  THEN [joints |-> joints, err |-> <<Msg("joint without child", joint.name)>>]
  ELSE [joints |-> Insert(joints, joint.childName, joint), err |-> <<>>]

\* Mutant of Claim: the test for an empty child name is left out.
ClaimEmptyChild(joints, joint) ==
  IF Find(joints, joint.childName) # End
  THEN [joints |-> joints, err |-> <<Msg("child already claimed", joint.childName)>>]
  ELSE [joints |-> Insert(joints, joint.childName, joint), err |-> <<>>]

\* What one pass of the loop of readAllJoints does with `joint`: the registry
\* after it and the message written.
Claim(joints, joint) ==
  IF joint.childName = ""
  THEN [joints |-> joints, err |-> <<Msg("joint without child", joint.name)>>]
  ELSE IF Find(joints, joint.childName) # End
  THEN [joints |-> joints, err |-> <<Msg("child already claimed", joint.childName)>>]
  ELSE [joints |-> Insert(joints, joint.childName, joint), err |-> <<>>]

\* One pass of the loop of readAllJoints over the SDFJoint `joint` that
\* readJoint returned.
ReadJoint(i, joint) ==
  /\ pc[i] = "joints"
  /\ Len(jointsRead[i]) < MaxJoints
  /\ jointsRead' = [jointsRead EXCEPT ![i] = Append(@, joint)]
  /\ jointQueue' = [jointQueue EXCEPT ![i] = @ \ {joint}]
  /\ sdfJoints' = [sdfJoints EXCEPT ![i] = Claim(@, joint).joints]
  /\ dterr' = [dterr EXCEPT ![i] = @ \o Claim(sdfJoints[i], joint).err]
  /\ UNCHANGED <<pc, nLinks, sdfBodyNodes, registry, it, newSkeleton, aborted, ret, linkQueue>>
  /\ UNCHANGED <<uriVars, bulletVars>>

\* hasElement(_jointElement, ...) is false.
NoElem == "<none>"

\* The <joint> elements: name and type attributes, <parent> and <child> texts.
JointElemTypes == {"revolute", "fixed"}
JointElems ==
  [name : {"J1"}, type : JointElemTypes, parent : {NoElem, "world", "A", "B", "C"},
   child : {NoElem, "A", "B", "C"}]

\* The types for which readJoint makes the Joint::Properties object.
TypesWithProperties == {"prismatic", "revolute", "screw", "revolute2", "ball"}

\* What a read of _sdfBodyNodes.end()->first may yield.
AnyKey == {"", "A", "B", "C"}

\* readJoint(_jointElement, _sdfBodyNodes, _skeletonFrame): the possible
\* outcomes. assert(0) ends the process in a build with assertions and is
\* nothing in one without; dereferencing end() or the null properties pointer
\* is undefined, and either ends the process or goes on.
readJoint(elem, bodies) ==
  LET parent_it == IF elem.parent \in {NoElem, "world"} THEN End
                   ELSE Find(bodies, elem.parent)
      child_it == IF elem.child = NoElem THEN End ELSE Find(bodies, elem.child)
      parentErr == IF elem.parent = NoElem
                   THEN <<Msg("joint element without parent", elem.name)>>
                   ELSE IF elem.parent # "world" /\ parent_it = End
                   THEN <<Msg("parent of joint is no link", elem.parent)>>
                   ELSE <<>>
      childErr == IF elem.child = NoElem
                  THEN <<Msg("joint element without child", elem.name)>>
                  ELSE IF child_it = End
                  THEN <<Msg("child of joint is no link", elem.child)>>
                  ELSE <<>>
      parentName == IF parent_it = End THEN "" ELSE parent_it
      childNames == IF parent_it = End THEN {""}
                    ELSE IF child_it = End THEN AnyKey
                    ELSE {child_it}
      mayEnd == \/ parentErr # <<>>
                \/ childErr # <<>>
                \/ elem.type \notin TypesWithProperties
  IN  {[crashed |-> FALSE, err |-> parentErr \o childErr,
        joint |-> [name |-> elem.name, type |-> elem.type, parentName |-> parentName,
                   childName |-> cn]] : cn \in childNames}
      \cup
      (IF mayEnd
       THEN {[crashed |-> TRUE, err |-> parentErr \o childErr,
              joint |-> [name |-> elem.name, type |-> elem.type, parentName |-> "",
                         childName |-> ""]]}
       ELSE {})

\* One pass of the loop of readAllJoints over the <joint> element `elem`:
\* readJoint, then the claim of the child.
ReadJointElem(i, elem) ==
  /\ pc[i] = "joints"
  /\ Len(jointsRead[i]) < MaxJoints
  /\ jointQueue' = [jointQueue EXCEPT ![i] = @ \ {elem}]
  /\ \E out \in readJoint(elem, sdfBodyNodes[i]) :
       IF out.crashed
       THEN /\ pc' = [pc EXCEPT ![i] = "crashed"]
            /\ dterr' = [dterr EXCEPT ![i] = @ \o out.err]
            /\ UNCHANGED <<jointsRead, sdfJoints>>
       ELSE /\ jointsRead' = [jointsRead EXCEPT ![i] = Append(@, out.joint)]
            /\ sdfJoints' = [sdfJoints EXCEPT ![i] = Claim(@, out.joint).joints]
            /\ dterr' = [dterr EXCEPT ![i] = @ \o out.err \o Claim(sdfJoints[i], out.joint).err]
            /\ UNCHANGED pc
  /\ UNCHANGED <<nLinks, sdfBodyNodes, registry, it, newSkeleton, aborted, ret, linkQueue>>
  /\ UNCHANGED <<uriVars, bulletVars>>

\* joints.next() is false: readAllJoints returns the registry and the loop of
\* readSkeleton starts at sdfJoints.begin().
EndJoints(i) ==
  /\ pc[i] = "joints"
  /\ jointQueue[i] = {}
  /\ pc' = [pc EXCEPT ![i] = "loop"]
  /\ registry' = [registry EXCEPT ![i] = sdfJoints[i]]
  /\ it' = [it EXCEPT ![i] = StartOver(i, sdfJoints[i])]
  /\ UNCHANGED <<nLinks, jointsRead, sdfBodyNodes, sdfJoints, newSkeleton, dterr, aborted,
                 ret, linkQueue, jointQueue>>
  /\ UNCHANGED <<uriVars, bulletVars>>

\* Mutant of NextPair: the skeleton is one object of the process, that of
\* invocation 1, whichever invocation asks.
NextPairSharedSkeleton(i) ==
  getNextJointAndNodePair(it[i], newSkeleton[1], sdfJoints[i], sdfBodyNodes[i])

NextPair(i) == getNextJointAndNodePair(it[i], newSkeleton[i], sdfJoints[i], sdfBodyNodes[i])

InLoop(i) == pc[i] = "loop" /\ it[i] # End

\* The loop is left through `break`, after the messages err.
Break(i, err) ==
  /\ pc' = [pc EXCEPT ![i] = "return"]
  /\ aborted' = [aborted EXCEPT ![i] = TRUE]
  /\ dterr' = [dterr EXCEPT ![i] = @ \o err]

\* A pass of the loop in which getNextJointAndNodePair returns BREAK.
LoopBreak(i) ==
  /\ InLoop(i)
  /\ NextPair(i).result = "BREAK"
  /\ Break(i, NextPair(i).err)
  /\ UNCHANGED <<nLinks, jointsRead, sdfBodyNodes, sdfJoints, registry, it, newSkeleton, ret,
                 linkQueue, jointQueue>>
  /\ UNCHANGED <<uriVars, bulletVars>>

\* Mutant of LoopContinue: the joint the redirect leaves is dropped from the
\* pending joints.
LoopContinueDropsCurrent(i) ==
  /\ InLoop(i)
  /\ NextPair(i).result = "CONTINUE"
  /\ it' = [it EXCEPT ![i] = NextPair(i).it]
  /\ sdfJoints' = [sdfJoints EXCEPT ![i] =
                     IF NextPair(i).it = it[i] THEN @ ELSE Erase(@, it[i])]
  /\ UNCHANGED <<pc, nLinks, jointsRead, sdfBodyNodes, registry, newSkeleton, dterr,
                 aborted, ret, linkQueue, jointQueue>>
  /\ UNCHANGED <<uriVars, bulletVars>>

\* A pass in which it returns CONTINUE, having moved the iterator to the joint
\* of the parent link.
LoopContinue(i) ==
  /\ InLoop(i)
  /\ NextPair(i).result = "CONTINUE"
  /\ it' = [it EXCEPT ![i] = NextPair(i).it]
  /\ UNCHANGED <<pc, nLinks, jointsRead, sdfBodyNodes, sdfJoints, registry, newSkeleton, dterr,
                 aborted, ret, linkQueue, jointQueue>>
  /\ UNCHANGED <<uriVars, bulletVars>>

\* Mutant of RootJoint: the synthesized joint is given the wrong type.
RootJointWeld == [name |-> "root", type |-> "fixed", parentName |-> "", childName |-> ""]

\* The joint the loop makes for a parent link that no joint has as child.
RootJoint == [name |-> "root", type |-> "free", parentName |-> "", childName |-> ""]

\* Mutant of LoopCreateRoot: the joint whose parent was rooted is taken off the
\* pending joints and the loop starts over.
LoopCreateRootConsumes(i) ==
  /\ InLoop(i)
  /\ NextPair(i).result = "CREATE_FREEJOINT_ROOT"
  /\ LET rootNode == Find(sdfBodyNodes[i], sdfJoints[i][it[i]].parentName)
         made == createPair(newSkeleton[i], NullBody, RootJoint, sdfBodyNodes[i][rootNode])
     IN  IF ~made.ok
         THEN /\ Break(i, made.err)
              /\ UNCHANGED <<newSkeleton, sdfJoints, it>>
         ELSE /\ newSkeleton' = [newSkeleton EXCEPT ![i] = made.skeleton]
              /\ sdfJoints' = [sdfJoints EXCEPT ![i] = Erase(@, it[i])]
              /\ it' = [it EXCEPT ![i] = Begin(Erase(sdfJoints[i], it[i]))]
              /\ UNCHANGED <<pc, aborted, dterr>>
  /\ UNCHANGED <<nLinks, jointsRead, sdfBodyNodes, registry, ret, linkQueue, jointQueue>>
  /\ UNCHANGED <<uriVars, bulletVars>>

\* A pass in which it returns CREATE_FREEJOINT_ROOT.
LoopCreateRoot(i) ==
  /\ InLoop(i)
  /\ NextPair(i).result = "CREATE_FREEJOINT_ROOT"
  /\ LET rootNode == Find(sdfBodyNodes[i], sdfJoints[i][it[i]].parentName)
         made == createPair(newSkeleton[i], NullBody, RootJoint, sdfBodyNodes[i][rootNode])
     IN  IF ~made.ok
         THEN /\ Break(i, made.err)
              /\ UNCHANGED newSkeleton
         ELSE /\ newSkeleton' = [newSkeleton EXCEPT ![i] = made.skeleton]
              /\ UNCHANGED <<pc, aborted, dterr>>
  /\ UNCHANGED <<nLinks, jointsRead, sdfBodyNodes, sdfJoints, registry, it, ret, linkQueue,
                 jointQueue>>
  /\ UNCHANGED <<uriVars, bulletVars>>

\* Mutant of LoopCreatePair: a joint the factory refuses is skipped, the loop
\* going on with the others.
LoopCreatePairSkipsFailed(i) ==
  /\ InLoop(i)
  /\ NextPair(i).result = "VALID"
  /\ LET made == createPair(newSkeleton[i], NextPair(i).parent, sdfJoints[i][it[i]],
                            sdfBodyNodes[i][NextPair(i).child])
     IN  /\ newSkeleton' = [newSkeleton EXCEPT ![i] = made.skeleton]
         /\ dterr' = [dterr EXCEPT ![i] = @ \o made.err]
         /\ sdfJoints' = [sdfJoints EXCEPT ![i] = Erase(@, it[i])]
         /\ it' = [it EXCEPT ![i] = StartOver(i, Erase(sdfJoints[i], it[i]))]
         /\ UNCHANGED <<pc, aborted>>
  /\ UNCHANGED <<nLinks, jointsRead, sdfBodyNodes, registry, ret, linkQueue, jointQueue>>
  /\ UNCHANGED <<uriVars, bulletVars>>

\* A pass in which it returns VALID: the pair is created, the joint erased and
\* the iterator set back to sdfJoints.begin().
LoopCreatePair(i) ==
  /\ InLoop(i)
  /\ NextPair(i).result = "VALID"
  /\ LET made == createPair(newSkeleton[i], NextPair(i).parent, sdfJoints[i][it[i]],
                            sdfBodyNodes[i][NextPair(i).child])
     IN  IF ~made.ok
         THEN /\ Break(i, made.err)
              /\ UNCHANGED <<newSkeleton, sdfJoints, it>>
         ELSE /\ newSkeleton' = [newSkeleton EXCEPT ![i] = made.skeleton]
              /\ sdfJoints' = [sdfJoints EXCEPT ![i] = Erase(@, it[i])]
              /\ it' = [it EXCEPT ![i] = StartOver(i, Erase(sdfJoints[i], it[i]))]
              /\ UNCHANGED <<pc, aborted, dterr>>
  /\ UNCHANGED <<nLinks, jointsRead, sdfBodyNodes, registry, ret, linkQueue, jointQueue>>
  /\ UNCHANGED <<uriVars, bulletVars>>

\* it == sdfJoints.end(), or the loop was left: return newSkeleton.
\* Mutant of Return: a link that no body node stands for is attached by a
\* root before the skeleton is returned.
ReturnRootsLeftover(i) ==
  /\ \/ pc[i] = "loop" /\ it[i] = End
     \/ pc[i] = "return"
  /\ pc' = [pc EXCEPT ![i] = "done"]
  /\ LET left == {l \in DOMAIN sdfBodyNodes[i] :
                    \A n \in 1..Len(newSkeleton[i]) : newSkeleton[i][n].name # l}
         all == IF left = {} \/ aborted[i] THEN newSkeleton[i]
                ELSE Append(newSkeleton[i],
                            [name |-> CHOOSE l \in left : TRUE, parent |-> NullBody,
                             variant |-> "BodyNode", joint |-> RootJoint])
     IN  /\ newSkeleton' = [newSkeleton EXCEPT ![i] = all]
         /\ ret' = [ret EXCEPT ![i] = [ptr |-> "newSkeleton", bodies |-> all]]
  /\ UNCHANGED <<nLinks, jointsRead, sdfBodyNodes, sdfJoints, registry, it, dterr,
                 aborted, linkQueue, jointQueue>>
  /\ UNCHANGED <<uriVars, bulletVars>>

Return(i) ==
  /\ \/ pc[i] = "loop" /\ it[i] = End
     \/ pc[i] = "return"
  /\ pc' = [pc EXCEPT ![i] = "done"]
  /\ ret' = [ret EXCEPT ![i] = [ptr |-> "newSkeleton", bodies |-> newSkeleton[i]]]
  /\ UNCHANGED <<nLinks, jointsRead, sdfBodyNodes, sdfJoints, registry, it, newSkeleton, dterr,
                 aborted, linkQueue, jointQueue>>
  /\ UNCHANGED <<uriVars, bulletVars>>

\* The steps of invocation i after the registry is built.
Assemble(i) ==
  \/ LoopBreak(i)
  \/ LoopContinue(i)
  \/ LoopCreateRoot(i)
  \/ LoopCreatePair(i)
  \/ Return(i)

----------------------------------------------------------------------------
\* The loop of readSkeleton as one uninterrupted run

\* More passes than a loop that comes to its end makes.
LoopFuel == (MaxJoints + 1) * (MaxJoints + MaxLinks)

\* The body nodes of the skeleton when the loop, at iterator itv with these
\* pending joints, runs on to its end or to a break.
RECURSIVE RunLoop(_, _, _, _, _)
RunLoop(itv, skeleton, joints, bodies, fuel) ==
  IF itv = End \/ fuel = 0 THEN skeleton
  ELSE LET next == getNextJointAndNodePair(itv, skeleton, joints, bodies)
       IN  IF next.result = "BREAK" THEN skeleton
           ELSE IF next.result = "CONTINUE"
           THEN RunLoop(next.it, skeleton, joints, bodies, fuel - 1)
           ELSE IF next.result = "CREATE_FREEJOINT_ROOT"
           THEN LET made == createPair(skeleton, NullBody, RootJoint,
                                       bodies[joints[itv].parentName])
                IN  IF made.ok THEN RunLoop(itv, made.skeleton, joints, bodies, fuel - 1)
                    ELSE skeleton
           ELSE LET made == createPair(skeleton, next.parent, joints[itv], bodies[next.child])
                IN  IF made.ok
                    THEN RunLoop(Begin(Erase(joints, itv)), made.skeleton, Erase(joints, itv),
                                 bodies, fuel - 1)
                    ELSE skeleton

----------------------------------------------------------------------------
\* One invocation, on any link elements and any joint records

Init == InitOf({1}, {}, {})

Next ==
  \/ \E body \in LinkElems : ReadLink(1, body)
  \/ EndBodies(1)
  \/ \E joint \in JointRecords : ReadJoint(1, joint)
  \/ EndJoints(1)
  \/ LoopBreak(1)
  \/ LoopContinue(1)
  \/ LoopCreateRoot(1)
  \/ LoopCreatePair(1)
  \/ Return(1)

Spec == Init /\ [][Next]_vars

----------------------------------------------------------------------------
\* One invocation that runs to its end: readSkeleton is one synchronous call, so
\* a step that can be taken is taken. The links are all rigid here.

RigidLinkElems == [name : LinkNames, type : {""}]

FairNext ==
  \/ \E body \in RigidLinkElems : ReadLink(1, body)
  \/ EndBodies(1)
  \/ \E joint \in JointRecords : ReadJoint(1, joint)
  \/ EndJoints(1)
  \/ LoopBreak(1)
  \/ LoopContinue(1)
  \/ LoopCreateRoot(1)
  \/ LoopCreatePair(1)
  \/ Return(1)

FairSpec == Init /\ [][FairNext]_vars /\ WF_vars(FairNext)

----------------------------------------------------------------------------
\* Two invocations on the same document: each enumerates the document's
\* elements in an order of its own, into its own maps and skeleton.

PairLinkElems == [name : {"A", "B", "C"}, type : {"", "bogus"}]

PairJointRecords ==
  [name : {"J1"}, type : {"revolute"}, parentName : {"", "A", "B", "C"},
   childName : {"A", "B", "C"}]

\* Documents whose links have distinct names and whose joints have distinct
\* child links.
LinkDocuments ==
  {doc \in SUBSET PairLinkElems :
     /\ Cardinality(doc) <= MaxLinks
     /\ \A a, b \in doc : a.name = b.name => a = b}

JointDocuments ==
  {doc \in SUBSET PairJointRecords :
     /\ Cardinality(doc) <= MaxJoints
     /\ \A a, b \in doc : a.childName = b.childName => a = b}

PairInit == \E lq \in LinkDocuments : \E jq \in JointDocuments : InitOf({1, 2}, lq, jq)

PairNext ==
  \E i \in {1, 2} :
    \/ \E body \in linkQueue[i] : ReadLink(i, body)
    \/ EndBodies(i)
    \/ \E joint \in jointQueue[i] : ReadJoint(i, joint)
    \/ EndJoints(i)
    \/ LoopBreak(i)
    \/ LoopContinue(i)
    \/ LoopCreateRoot(i)
    \/ LoopCreatePair(i)
    \/ Return(i)

PairSpec == PairInit /\ [][PairNext]_vars

----------------------------------------------------------------------------
\* One invocation on a document whose joints carry distinct names; it runs to
\* its end, as one synchronous call does.

NamedJointRecords ==
  [name : {"J1", "J2"}, type : {"revolute"}, parentName : {"", "A", "B", "C"},
   childName : {"A", "B", "C"}]

\* Documents of joints with distinct names (two names: at most two joints).
NamedJointDocuments ==
  {doc \in {{}} \cup {{a, b} : a, b \in NamedJointRecords} :
     /\ Cardinality(doc) <= MaxJoints
     /\ \A a, b \in doc : a.name = b.name => a = b}

\* Documents of links; two links of a document may carry the same name.
AnyLinkDocuments == {doc \in SUBSET PairLinkElems : Cardinality(doc) <= MaxLinks}

DocInit == \E lq \in AnyLinkDocuments : \E jq \in NamedJointDocuments : InitOf({1}, lq, jq)

DocNext ==
  \/ \E body \in linkQueue[1] : ReadLink(1, body)
  \/ EndBodies(1)
  \/ \E joint \in jointQueue[1] : ReadJoint(1, joint)
  \/ EndJoints(1)
  \/ LoopBreak(1)
  \/ LoopContinue(1)
  \/ LoopCreateRoot(1)
  \/ LoopCreatePair(1)
  \/ Return(1)

DocSpec == DocInit /\ [][DocNext]_vars /\ WF_vars(DocNext)

----------------------------------------------------------------------------
\* One invocation on a document of <link> and <joint> elements, the joints
\* going through readJoint.

JointElemDocuments ==
  {doc \in {{}} \cup {{a, b} : a, b \in JointElems} : Cardinality(doc) <= MaxJoints}

ElemInit == \E lq \in LinkDocuments : \E jq \in JointElemDocuments : InitOf({1}, lq, jq)

ElemNext ==
  \/ \E body \in linkQueue[1] : ReadLink(1, body)
  \/ EndBodies(1)
  \/ \E elem \in jointQueue[1] : ReadJointElem(1, elem)
  \/ EndJoints(1)
  \/ LoopBreak(1)
  \/ LoopContinue(1)
  \/ LoopCreateRoot(1)
  \/ LoopCreatePair(1)
  \/ Return(1)

ElemSpec == ElemInit /\ [][ElemNext]_vars

----------------------------------------------------------------------------
\* One invocation on links and joint records among which one link is named
\* "world" and another has a name that sorts after it.

WorldLinkElems == [name : {"A", "world", "z"}, type : {""}]

WorldJointRecords ==
  [name : {"J1"}, type : {"revolute"}, parentName : {"", "world", "A", "z"},
   childName : {"A", "world", "z"}]

WorldNext ==
  \/ \E body \in WorldLinkElems : ReadLink(1, body)
  \/ EndBodies(1)
  \/ \E joint \in WorldJointRecords : ReadJoint(1, joint)
  \/ EndJoints(1)
  \/ LoopBreak(1)
  \/ LoopContinue(1)
  \/ LoopCreateRoot(1)
  \/ LoopCreatePair(1)
  \/ Return(1)

WorldSpec == Init /\ [][WorldNext]_vars

----------------------------------------------------------------------------
\* Vocabulary of the properties

\* Positions of the body nodes named `name` in a skeleton.
Positions(skeleton, name) == {n \in 1..Len(skeleton) : skeleton[n].name = name}

\* The body node was attached through the joint the loop makes for a root.
ByRootJoint(body) == body.joint.childName = "" /\ body.joint.name = "root"

\* Invocation i has returned and did not leave the loop through a break.
Ended(i) == pc[i] = "done" /\ ~aborted[i]

\* The link is named as parent by a joint of the registry and claimed as child
\* by none.
OrphanParent(i, link) ==
  /\ link \in DOMAIN sdfBodyNodes[i]
  /\ link \notin DOMAIN registry[i]
  /\ \E c \in DOMAIN registry[i] : registry[i][c].parentName = link

\* The link is in the skeleton once, with no parent, through a Free joint
\* named "root" that is no joint of the registry.
AttachedByRoot(i, link) ==
  /\ Cardinality(Positions(newSkeleton[i], link)) = 1
  /\ \A n \in Positions(newSkeleton[i], link) :
       /\ newSkeleton[i][n].parent = NullBody
       /\ newSkeleton[i][n].joint.name = "root"
       /\ newSkeleton[i][n].joint.type = "free"
       /\ newSkeleton[i][n].joint.childName = ""

----------------------------------------------------------------------------
\* Properties of one invocation (Spec)

\* C1. Parent before child: a body node attached under a parent has that parent
\* at an earlier position of the skeleton, and the body node of the link a
\* joint names as parent is never created at or after the joint's child.
C1_ParentBeforeChild ==
  \A n \in 1..Len(newSkeleton[1]) :
    LET body == newSkeleton[1][n]
    IN  /\ body.parent # NullBody =>
             \E k \in 1..(n - 1) : newSkeleton[1][k].name = body.parent
        /\ body.joint.parentName \notin {"", "world"} =>
             \A m \in n..Len(newSkeleton[1]) :
               newSkeleton[1][m].name # body.joint.parentName

\* A child that sorts before its parent was attached under it, the parent
\* having been built first through its own joint after a redirect.
C1_Witness ==
  \E n \in 1..Len(newSkeleton[1]) : \E k \in 1..(n - 1) :
    /\ newSkeleton[1][n].parent = newSkeleton[1][k].name
    /\ NameRank(newSkeleton[1][n].name) < NameRank(newSkeleton[1][k].name)
    /\ ~ByRootJoint(newSkeleton[1][k])

\* C2. Single parent: no link name is materialized twice, and the one joint of
\* each body node is either the registry's joint for that link or, for a link
\* no registry joint claims, the synthesized root joint.
C2_SingleParent ==
  /\ \A m, n \in 1..Len(newSkeleton[1]) :
       newSkeleton[1][m].name = newSkeleton[1][n].name => m = n
  /\ \A n \in 1..Len(newSkeleton[1]) :
       LET body == newSkeleton[1][n]
       IN  /\ body.name \in DOMAIN sdfBodyNodes[1]
           /\ IF ByRootJoint(body)
              THEN body.name \notin DOMAIN registry[1]
              ELSE /\ body.name \in DOMAIN registry[1]
                   /\ body.joint = registry[1][body.name]

\* A finished skeleton that holds a synthesized root and a body built through
\* a registry joint after a redirect.
C2_Witness ==
  /\ Ended(1)
  /\ \E n \in 1..Len(newSkeleton[1]) : ByRootJoint(newSkeleton[1][n])
  /\ \E n \in 1..Len(newSkeleton[1]) : \E k \in 1..(n - 1) :
       /\ newSkeleton[1][n].parent = newSkeleton[1][k].name
       /\ NameRank(newSkeleton[1][n].name) < NameRank(newSkeleton[1][k].name)

\* C3. Roots: after an assembly that ended without abort, the body nodes
\* attached through a synthesized root are exactly the links that no registry
\* joint claims as child.
C3_RootsAreUnclaimedLinks ==
  Ended(1) =>
    {newSkeleton[1][n].name : n \in {m \in 1..Len(newSkeleton[1]) :
                                        ByRootJoint(newSkeleton[1][m])}}
      = DOMAIN sdfBodyNodes[1] \ DOMAIN registry[1]

\* C4 as stated. Orphan closure for every link: after an assembly that ended
\* without abort, each link that some registry joint names as parent and none
\* claims as child is attached once, parentless, by a Free joint named "root".
C4_OrphanClosureEveryLink ==
  Ended(1) =>
    \A link \in DOMAIN sdfBodyNodes[1] :
      OrphanParent(1, link) => AttachedByRoot(1, link)

\* C4 amended. Orphan closure for every link whose name is not the root
\* sentinel "world" (nor the empty string).
C4_OrphanClosure ==
  Ended(1) =>
    \A link \in DOMAIN sdfBodyNodes[1] \ {"world", ""} :
      OrphanParent(1, link) => AttachedByRoot(1, link)

\* An assembly ended without abort on a registry with an orphaned parent link.
C4_Witness ==
  /\ Ended(1)
  /\ \E link \in DOMAIN sdfBodyNodes[1] \ {"world", ""} :
       OrphanParent(1, link) /\ AttachedByRoot(1, link)

\* C5. Missing-reference abort: when a registry joint names a parent that is
\* neither a link nor the child of a registry joint, the assembly aborts and
\* the skeleton it returns holds no body node.
C5_MissingParentYieldsNothing ==
  (/\ pc[1] = "done"
   /\ \E c \in DOMAIN registry[1] :
        /\ registry[1][c].parentName \notin {"", "world"}
        /\ registry[1][c].parentName \notin DOMAIN sdfBodyNodes[1]
        /\ registry[1][c].parentName \notin DOMAIN registry[1])
    => aborted[1] /\ ret[1].bodies = <<>>

\* C6. An abort is signalled: after the loop was left through a break,
\* readSkeleton does not return the skeleton it was building.
C6_AbortSignalsFailure ==
  (pc[1] = "done" /\ aborted[1]) => ret[1].ptr # "newSkeleton"

----------------------------------------------------------------------------
\* Termination (FairSpec)

\* Following parentName from the joint keyed `cur` as the redirects do (they stop
\* at "world", at the empty name and at a name no joint has as child) comes
\* back to the joint keyed `start` within `fuel` redirects.
RECURSIVE ChainReturns(_, _, _, _)
ChainReturns(joints, start, cur, fuel) ==
  LET p == joints[cur].parentName
  IN  IF p \in {"", "world"} \/ p \notin DOMAIN joints THEN FALSE
      ELSE IF p = start THEN TRUE
      ELSE IF fuel = 0 THEN FALSE
      ELSE ChainReturns(joints, start, p, fuel - 1)

\* The registry holds a cyclic parentName chain.
Cyclic(joints) ==
  \E c \in DOMAIN joints : ChainReturns(joints, c, c, Cardinality(DOMAIN joints))

\* C7. Termination on well-formed input: from the start of the loop on a
\* registry without a cyclic parentName chain, readSkeleton returns, with
\* no joint pending or after an abort.
C7_TerminatesOnAcyclic ==
  (pc[1] = "loop" /\ ~Cyclic(registry[1]))
    ~> (pc[1] = "done" /\ (aborted[1] \/ DOMAIN sdfJoints[1] = {}))

\* An assembly that ended after a root synthesis and a redirect, with every
\* joint of a two-joint registry removed.
C7_Witness ==
  /\ Ended(1)
  /\ ~Cyclic(registry[1])
  /\ Cardinality(DOMAIN registry[1]) >= 2
  /\ DOMAIN sdfJoints[1] = {}
  /\ \E n \in 1..Len(newSkeleton[1]) : ByRootJoint(newSkeleton[1][n])
  /\ \E n \in 1..Len(newSkeleton[1]) : \E k \in 1..(n - 1) :
       /\ newSkeleton[1][n].parent = newSkeleton[1][k].name
       /\ NameRank(newSkeleton[1][n].name) < NameRank(newSkeleton[1][k].name)

\* C8. Cycle handling: from the start of the loop on a registry with a cyclic
\* parentName chain, readSkeleton returns after an abort.
C8_CycleIsReported ==
  (pc[1] = "loop" /\ Cyclic(registry[1])) ~> (pc[1] = "done" /\ aborted[1])

----------------------------------------------------------------------------
\* The registry (Spec)

\* Positions in the enumeration of the joints that claim `child`.
Claims(i, child) ==
  {k \in 1..Len(jointsRead[i]) : jointsRead[i][k].childName = child}

\* The first joint enumerated that claims `child`.
FirstClaim(i, child) ==
  jointsRead[i][CHOOSE k \in Claims(i, child) : \A l \in Claims(i, child) : k <= l]

\* The registry of invocation i: under construction in sdfJoints, then as
\* readAllJoints returned it.
Registered(i) == IF pc[i] \in {"bodies", "joints"} THEN sdfJoints[i] ELSE registry[i]

\* C9. Duplicate child resolution: the registry holds, for each non-empty child
\* name claimed by an enumerated joint, the first joint enumerated that claims
\* it and nothing else; a body node built through a registry joint is built
\* through that first joint, once when the assembly ends without abort.
C9_FirstClaimWins ==
  /\ DOMAIN Registered(1) = {c \in ChildNames \ {""} : Claims(1, c) # {}}
  /\ \A c \in DOMAIN Registered(1) : Registered(1)[c] = FirstClaim(1, c)
  /\ \A n \in 1..Len(newSkeleton[1]) :
       ~ByRootJoint(newSkeleton[1][n]) =>
         /\ Claims(1, newSkeleton[1][n].name) # {}
         /\ newSkeleton[1][n].joint = FirstClaim(1, newSkeleton[1][n].name)
  /\ Ended(1) =>
       \A c \in DOMAIN registry[1] : Cardinality(Positions(newSkeleton[1], c)) = 1

\* Two different joints claimed the same child, the later one was discarded
\* and the assembly ended with the child built through the earlier one.
C9_Witness ==
  /\ Ended(1)
  /\ \E k, l \in 1..Len(jointsRead[1]) :
       /\ k < l
       /\ jointsRead[1][k].childName = jointsRead[1][l].childName
       /\ jointsRead[1][k] # jointsRead[1][l]
       /\ \E n \in 1..Len(newSkeleton[1]) : newSkeleton[1][n].joint = jointsRead[1][k]

\* Positions in dterr of the messages about a joint without child.
NoChildMessages(i) ==
  {n \in 1..Len(dterr[i]) : dterr[i][n].kind = "joint without child"}

\* Positions in the enumeration of the joints with an empty child name.
NoChildJoints(i) == Claims(i, "")

\* C14. A joint record with an empty childName never enters the registry: no
\* key of the registry is the empty string, each such record is reported by
\* one message that names it, and every enumerated joint with a non-empty
\* child that no earlier joint claimed is in the registry, whatever records
\* without child were enumerated before it.
C14_EmptyChildNeverRegistered ==
  /\ "" \notin DOMAIN sdfJoints[1]
  /\ "" \notin DOMAIN registry[1]
  /\ Cardinality(NoChildMessages(1)) = Cardinality(NoChildJoints(1))
  /\ \A n \in NoChildMessages(1) :
       \E k \in NoChildJoints(1) : dterr[1][n].name = jointsRead[1][k].name
  /\ \A k \in 1..Len(jointsRead[1]) :
       LET joint == jointsRead[1][k]
       IN  (/\ joint.childName # ""
            /\ \A l \in 1..(k - 1) : jointsRead[1][l].childName # joint.childName)
             => /\ joint.childName \in DOMAIN Registered(1)
                /\ Registered(1)[joint.childName] = joint

\* A record without child was reported and discarded, and the joint
\* enumerated after it was registered under its child.
C14_Witness ==
  /\ pc[1] = "loop"
  /\ Len(jointsRead[1]) = 2
  /\ jointsRead[1][1].childName = ""
  /\ jointsRead[1][2].childName = "A"
  /\ DOMAIN registry[1] = {"A"}
  /\ registry[1]["A"] = jointsRead[1][2]
  /\ NoChildMessages(1) # {}

----------------------------------------------------------------------------
\* Two invocations on one document (PairSpec)

\* The pending joint with the smallest child name, or End.
SmallestChild(joints) ==
  IF DOMAIN joints = {} THEN End
  ELSE CHOOSE c \in DOMAIN joints : \A d \in DOMAIN joints : NameRank(c) <= NameRank(d)

\* C10. Determinism of selection: when the loop starts and after each removal
\* of a joint the iterator is at the pending joint with the smallest child
\* name; and two invocations that enumerated the same records with distinct
\* child names, in any two orders, return the same body nodes with the same
\* parents in the same order, both aborted with the same message or neither.
C10_SameOutcomeInAnyOrder ==
  /\ [][\A i \in {1, 2} :
          (pc'[i] = "loop" /\ (pc[i] = "joints" \/ sdfJoints'[i] # sdfJoints[i]))
            => it'[i] = SmallestChild(sdfJoints'[i])]_vars
  /\ []((pc[1] = "done" /\ pc[2] = "done") =>
          /\ ret[1] = ret[2]
          /\ newSkeleton[1] = newSkeleton[2]
          /\ aborted[1] = aborted[2]
          /\ dterr[1] = dterr[2])

\* Both invocations returned, having enumerated two joints in opposite orders,
\* with a body node attached under a parent.
C10_Witness ==
  /\ pc[1] = "done" /\ pc[2] = "done"
  /\ Len(jointsRead[1]) >= 2
  /\ jointsRead[1] # jointsRead[2]
  /\ \E n \in 1..Len(newSkeleton[1]) : newSkeleton[1][n].parent # NullBody

----------------------------------------------------------------------------
\* The chain scenario (DocSpec)

\* The joints of the scenario.
JointAB == [name |-> "J1", type |-> "revolute", parentName |-> "A", childName |-> "B"]
JointBC == [name |-> "J2", type |-> "revolute", parentName |-> "B", childName |-> "C"]

\* Invocation i has read the rigid links A, B, C and the joints J2, J1 in this
\* order, and is in or past the loop.
ChainScenario(i) ==
  /\ pc[i] \in {"loop", "return", "done"}
  /\ DOMAIN sdfBodyNodes[i] = {"A", "B", "C"}
  /\ \A l \in DOMAIN sdfBodyNodes[i] : sdfBodyNodes[i][l].type = ""
  /\ jointsRead[i] = <<JointBC, JointAB>>

\* The chain A, B, C: A parentless through a Free joint named "root", B under A
\* through J1, C under B through J2.
ChainSkeleton ==
  << [name |-> "A", parent |-> NullBody, variant |-> "BodyNode",
      joint |-> [name |-> "root", type |-> "free", parentName |-> "", childName |-> ""]],
     [name |-> "B", parent |-> "A", variant |-> "BodyNode", joint |-> JointAB],
     [name |-> "C", parent |-> "B", variant |-> "BodyNode", joint |-> JointBC] >>

\* The body nodes without a parent are exactly A.
OneRootA(skeleton) ==
  {skeleton[n].name : n \in {m \in 1..Len(skeleton) : skeleton[m].parent = NullBody}} = {"A"}

\* C11 as stated. In the chain scenario the loop starts at J2 (child C), and
\* the finished forest has exactly one root, A.
C11_SelectsJ2First ==
  /\ [][(pc[1] = "joints" /\ ChainScenario(1)') => it'[1] = "C"]_vars
  /\ []((ChainScenario(1) /\ pc[1] = "done") => OneRootA(newSkeleton[1]))

\* C11 amended. In the chain scenario the loop starts at J1 (child B, the
\* smallest child name) and never redirects: the skeleton grows as A through a
\* synthesized Free root, then B through J1, then C through J2, without abort,
\* and the assembly ends with this chain, whose one root is A.
C11_BuildsChainFromJ1 ==
  /\ [][(pc[1] = "joints" /\ ChainScenario(1)') => it'[1] = "B"]_vars
  /\ [][(ChainScenario(1) /\ pc[1] = "loop" /\ sdfJoints'[1] = sdfJoints[1])
          => it'[1] = it[1]]_vars
  /\ [](ChainScenario(1) =>
          /\ ~aborted[1]
          /\ newSkeleton[1] = SubSeq(ChainSkeleton, 1, Len(newSkeleton[1]))
          /\ Len(newSkeleton[1]) = 1 + Cardinality(DOMAIN registry[1] \ DOMAIN sdfJoints[1])
               \/ (newSkeleton[1] = <<>> /\ sdfJoints[1] = registry[1])
          /\ pc[1] # "loop" => newSkeleton[1] = ChainSkeleton)
  /\ (ChainScenario(1) /\ pc[1] = "loop")
       ~> (pc[1] = "done" /\ ret[1].bodies = ChainSkeleton /\ OneRootA(ret[1].bodies))

\* The chain scenario ended with the chain A, B, C built.
C11_Witness ==
  /\ ChainScenario(1)
  /\ pc[1] = "done"
  /\ newSkeleton[1] = ChainSkeleton
  /\ DOMAIN sdfJoints[1] = {}

----------------------------------------------------------------------------
\* Isolation (PairSpec)

\* Everything invocation i holds.
LocalState(i) ==
  <<pc[i], nLinks[i], jointsRead[i], sdfBodyNodes[i], sdfJoints[i], registry[i], it[i],
    newSkeleton[i], dterr[i], aborted[i], ret[i], linkQueue[i], jointQueue[i]>>

\* C18. Isolation of invocations: a step changes what one invocation holds
\* and nothing of the other, and however the steps of the two invocations
\* are interleaved each one returns the body nodes that the loop, run alone
\* without interruption on its own link map and registry, builds.
C18_InterleavingIsInvisible ==
  /\ [][\A i \in {1, 2} :
          LocalState(i)' # LocalState(i) => LocalState(3 - i)' = LocalState(3 - i)]_vars
  /\ [](\A i \in {1, 2} :
          pc[i] = "done" =>
            /\ ret[i].bodies = RunLoop(Begin(registry[i]), <<>>, registry[i],
                                       sdfBodyNodes[i], LoopFuel)
            /\ ret[i].bodies = newSkeleton[i])

\* Both invocations are inside their loops, each with body nodes built and
\* one ahead of the other.
C18_Witness ==
  /\ pc[1] = "loop" /\ pc[2] = "loop"
  /\ newSkeleton[1] # <<>>
  /\ Len(newSkeleton[2]) > Len(newSkeleton[1])
  /\ DOMAIN sdfJoints[1] # {}
  /\ DOMAIN sdfJoints[2] # {}

----------------------------------------------------------------------------
\* The pair factory (Spec)

\* The pass of the loop that starts in this state calls createPair.
CallsCreatePair(i) ==
  InLoop(i) /\ NextPair(i).result \in {"VALID", "CREATE_FREEJOINT_ROOT"}

\* The link that call is given: the child of the current joint, or its parent
\* when a root is synthesized.
PairLink(i) ==
  IF NextPair(i).result = "VALID"
  THEN sdfBodyNodes[i][NextPair(i).child]
  ELSE sdfBodyNodes[i][sdfJoints[i][it[i]].parentName]

\* C16. Pair factory atomicity: a pass of the loop that calls createPair
\* either appends one body node with its joint, for the link it was given, to
\* an otherwise unchanged skeleton and goes on, or leaves the skeleton as it
\* is, writes a message and leaves the loop; for a link whose type is neither
\* empty nor "soft" it is the latter, with the message about the link type.
C16_PairIsAtomic ==
  /\ [][CallsCreatePair(1) =>
          \/ /\ Len(newSkeleton'[1]) = Len(newSkeleton[1]) + 1
             /\ SubSeq(newSkeleton'[1], 1, Len(newSkeleton[1])) = newSkeleton[1]
             /\ newSkeleton'[1][Len(newSkeleton'[1])].name = PairLink(1).name
             /\ newSkeleton'[1][Len(newSkeleton'[1])].joint.type \in SupportedJointTypes
             /\ PairLink(1).type \in {"", "soft"}
             /\ ~aborted'[1] /\ pc'[1] = "loop" /\ dterr'[1] = dterr[1]
          \/ /\ newSkeleton'[1] = newSkeleton[1]
             /\ aborted'[1] /\ pc'[1] = "return"
             /\ Len(dterr'[1]) = Len(dterr[1]) + 1]_vars
  /\ [][(CallsCreatePair(1) /\ PairLink(1).type \notin {"", "soft"}) =>
          /\ newSkeleton'[1] = newSkeleton[1]
          /\ aborted'[1]
          /\ dterr'[1] = Append(dterr[1], Msg("unsupported link type", PairLink(1).type))]_vars

\* createPair failed on the type of a link after an earlier pair was created:
\* the skeleton holds that pair and nothing of the failed call.
C16_Witness ==
  /\ aborted[1]
  /\ Len(newSkeleton[1]) = 1
  /\ dterr[1] # <<>>
  /\ dterr[1][Len(dterr[1])].kind = "unsupported link type"

----------------------------------------------------------------------------
\* The link map (DocSpec)

\* The <link> element whose enumeration this step is.
LinkReadOf(i, body) ==
  /\ body \in linkQueue[i]
  /\ linkQueue'[i] = linkQueue[i] \ {body}

\* The names of the links of a set of <link> elements.
NamesOf(elems) == {body.name : body \in elems}

\* C15. Duplicate link names: the enumeration of a link whose name the map
\* holds leaves the map as it is and writes a message naming it, that of a
\* link with a new name adds it under its name and writes nothing; an entry of
\* the map never changes afterwards, so it is the first link seen with that
\* name, and the map returned has one entry for each name of the document.
C15_FirstLinkWins ==
  /\ [][\A body \in PairLinkElems :
          LinkReadOf(1, body) =>
            IF body.name \in DOMAIN sdfBodyNodes[1]
            THEN /\ sdfBodyNodes'[1] = sdfBodyNodes[1]
                 /\ dterr'[1] = Append(dterr[1], Msg("duplicate link name", body.name))
            ELSE /\ DOMAIN sdfBodyNodes'[1] = DOMAIN sdfBodyNodes[1] \cup {body.name}
                 /\ sdfBodyNodes'[1][body.name] = body
                 /\ dterr'[1] = dterr[1]]_vars
  /\ [][/\ \A n \in DOMAIN sdfBodyNodes[1] :
            n \in DOMAIN sdfBodyNodes'[1] /\ sdfBodyNodes'[1][n] = sdfBodyNodes[1][n]
        /\ DOMAIN sdfBodyNodes'[1] \cup NamesOf(linkQueue'[1])
             = DOMAIN sdfBodyNodes[1] \cup NamesOf(linkQueue[1])]_vars
  /\ [](/\ \A n \in DOMAIN sdfBodyNodes[1] : sdfBodyNodes[1][n].name = n
        /\ pc[1] # "bodies" => linkQueue[1] = {})

\* The map was returned after a link was discarded for its name: the document
\* held two links named A, and the map holds one of them.
C15_Witness ==
  /\ pc[1] = "joints"
  /\ nLinks[1] = 3
  /\ DOMAIN sdfBodyNodes[1] = {"A", "B"}
  /\ \E n \in 1..Len(dterr[1]) : dterr[1][n] = Msg("duplicate link name", "A")

----------------------------------------------------------------------------
\* Root sentinels (Spec)

\* Invocation i read the one link A, of a supported type, and the one joint
\* with an empty parent name, child A and a supported type.
ParentlessScenario(i) ==
  /\ DOMAIN sdfBodyNodes[i] = {"A"}
  /\ sdfBodyNodes[i]["A"].type \in {"", "soft"}
  /\ Len(jointsRead[i]) = 1
  /\ jointsRead[i][1].parentName = ""
  /\ jointsRead[i][1].childName = "A"
  /\ jointsRead[i][1].type \in SupportedJointTypes

\* C12. Parentless joint: a body node built for the child of a registry joint
\* with an empty parent name has no parent and is attached by that joint, not
\* by a synthesized root; it is there once when the assembly ends without abort
\* and the child is a link. With the one link A and the one joint J1 (parent
\* empty, child A) readSkeleton ends without abort with exactly one body node,
\* A, parentless and attached by J1.
C12_ParentlessJointIsRoot ==
  /\ \A c \in DOMAIN registry[1] :
       registry[1][c].parentName = "" =>
         /\ \A n \in Positions(newSkeleton[1], c) :
              /\ newSkeleton[1][n].parent = NullBody
              /\ newSkeleton[1][n].joint = registry[1][c]
              /\ newSkeleton[1][n].joint.name # "root"
         /\ (Ended(1) /\ c \in DOMAIN sdfBodyNodes[1]) =>
              Cardinality(Positions(newSkeleton[1], c)) = 1
  /\ (ParentlessScenario(1) /\ pc[1] = "done") =>
       /\ ~aborted[1]
       /\ Len(newSkeleton[1]) = 1
       /\ newSkeleton[1][1].name = "A"
       /\ newSkeleton[1][1].parent = NullBody
       /\ newSkeleton[1][1].joint = jointsRead[1][1]
       /\ newSkeleton[1][1].joint.name = "J1"

\* The scenario ended with the one body node A attached by J1.
C12_Witness ==
  /\ ParentlessScenario(1)
  /\ pc[1] = "done"
  /\ Len(newSkeleton[1]) = 1
  /\ newSkeleton[1][1].joint = jointsRead[1][1]
  /\ newSkeleton[1][1].parent = NullBody

----------------------------------------------------------------------------
\* Joint elements (ElemSpec)

\* The <joint> element whose enumeration this step is.
ReadOf(i, elem) ==
  /\ elem \in jointQueue[i]
  /\ jointQueue'[i] = jointQueue[i] \ {elem}
  /\ pc'[i] = "joints"

\* C13. A joint element whose parent is "world" and whose child names a link
\* yields a record with that link as childName: no "joint without child"
\* message is written for it and, unless the child is claimed already, the
\* registry holds the record under that link; when the assembly ends without
\* abort the children of the registry joints without a parent link are
\* parentless body nodes. (A parent that is missing or names no link runs
\* into assert(0).)
C13_WorldJointIsRegistered ==
  /\ [][\A elem \in JointElems :
          (/\ ReadOf(1, elem)
           /\ elem.parent = "world"
           /\ elem.child \in DOMAIN sdfBodyNodes[1])
            => /\ jointsRead'[1][Len(jointsRead'[1])].childName = elem.child
               /\ \A n \in (Len(dterr[1]) + 1)..Len(dterr'[1]) :
                    dterr'[1][n].kind # "joint without child"
               /\ elem.child \notin DOMAIN sdfJoints[1] =>
                    /\ elem.child \in DOMAIN sdfJoints'[1]
                    /\ sdfJoints'[1][elem.child].name = elem.name]_vars
  /\ [](Ended(1) =>
          \A c \in DOMAIN registry[1] \cap DOMAIN sdfBodyNodes[1] :
            registry[1][c].parentName \in {"", "world"} =>
              /\ Positions(newSkeleton[1], c) # {}
              /\ \A n \in Positions(newSkeleton[1], c) :
                   newSkeleton[1][n].parent = NullBody)

----------------------------------------------------------------------------
\* Completion and the "world" sentinel (WorldSpec)

\* The body a joint record asks for as parent: none for the root sentinels.
ParentAskedFor(joint) ==
  IF joint.parentName \in {"", "world"} THEN NullBody ELSE joint.parentName

\* C17. Completion: when the assembly ended without abort no joint is pending
\* and the child of every joint of the registry is a body node, once, whose
\* parent is the body node named by the joint's parentName, or none when
\* parentName is empty or "world".
C17_EveryJointIsAttached ==
  Ended(1) =>
    /\ DOMAIN sdfJoints[1] = {}
    /\ \A c \in DOMAIN registry[1] :
         /\ Cardinality(Positions(newSkeleton[1], c)) = 1
         /\ \A n \in Positions(newSkeleton[1], c) :
              newSkeleton[1][n].parent = ParentAskedFor(registry[1][c])

\* C19. A registry joint whose parentName is "world" is materialized without
\* parent body, whatever body nodes the skeleton holds by then.
C19_WorldMeansNoParent ==
  \A n \in 1..Len(newSkeleton[1]) :
    (/\ newSkeleton[1][n].name \in DOMAIN registry[1]
     /\ newSkeleton[1][n].joint = registry[1][newSkeleton[1][n].name]
     /\ newSkeleton[1][n].joint.parentName = "world")
      => newSkeleton[1][n].parent = NullBody

----------------------------------------------------------------------------
\* After a materialization (DocSpec)

\* The pass of the loop that starts in this state creates the pair of the
\* current registry joint.
Materializes(i) ==
  /\ InLoop(i)
  /\ NextPair(i).result = "VALID"
  /\ createPair(newSkeleton[i], NextPair(i).parent, sdfJoints[i][it[i]],
                sdfBodyNodes[i][NextPair(i).child]).ok

\* The iterator came to the current joint from the first pending joint by
\* redirects.
RedirectedFromFirst(i) ==
  /\ it[i] # Begin(sdfJoints[i])
  /\ ChainReturns(sdfJoints[i], it[i], Begin(sdfJoints[i]), Cardinality(DOMAIN sdfJoints[i]))

\* A chain of redirects starts at the first pending joint: the current joint
\* is that one or is reached from it.
ChainStartsAtFirst(i) ==
  InLoop(i) => (it[i] = Begin(sdfJoints[i]) \/ RedirectedFromFirst(i))

\* C20 as stated. The materialization of a registry joint removes exactly that
\* joint from pending and makes the pending joint with the smallest child
\* name current, and after redirects that joint is not the one from which the
\* redirects started.
C20_NextIsNotChainStart ==
  /\ [][Materializes(1) =>
          /\ sdfJoints'[1] = Erase(sdfJoints[1], it[1])
          /\ it'[1] = SmallestChild(sdfJoints'[1])
          /\ RedirectedFromFirst(1) => it'[1] # Begin(sdfJoints[1])]_vars
  /\ [][(pc[1] = "loop" /\ ~Materializes(1)) => sdfJoints'[1] = sdfJoints[1]]_vars
  /\ []ChainStartsAtFirst(1)

\* C20 amended. The materialization of a registry joint removes exactly that
\* joint from pending, no other pass of the loop removes any, and the pending
\* joint with the smallest child name becomes current; redirects start at the
\* first pending joint, so after redirects the next current joint is again
\* the joint from which they started.
C20_NextIsSmallestPending ==
  /\ [][Materializes(1) =>
          /\ sdfJoints'[1] = Erase(sdfJoints[1], it[1])
          /\ newSkeleton'[1][Len(newSkeleton'[1])].joint = sdfJoints[1][it[1]]
          /\ it'[1] = SmallestChild(sdfJoints'[1])
          /\ RedirectedFromFirst(1) => it'[1] = Begin(sdfJoints[1])]_vars
  /\ [][(pc[1] = "loop" /\ ~Materializes(1)) => sdfJoints'[1] = sdfJoints[1]]_vars
  /\ []ChainStartsAtFirst(1)

\* A joint was materialized after a redirect, and the joint the redirect
\* started from, still the first pending one, is current again.
C20_Witness ==
  /\ InLoop(1)
  /\ newSkeleton[1] # <<>>
  /\ it[1] = SmallestChild(sdfJoints[1])
  /\ LET last == newSkeleton[1][Len(newSkeleton[1])]
     IN  /\ last.joint.name # "root"
         /\ last.name \in DOMAIN registry[1]
         /\ sdfJoints[1][it[1]].parentName = last.name
         /\ NameRank(it[1]) < NameRank(last.name)

----------------------------------------------------------------------------
\* Root synthesis (Spec)

\* The pass of the loop that starts in this state synthesizes a root for the
\* parent link of the current joint, and the factory takes the link.
SynthesizesRoot(i) ==
  /\ InLoop(i)
  /\ NextPair(i).result = "CREATE_FREEJOINT_ROOT"
  /\ sdfBodyNodes[i][sdfJoints[i][it[i]].parentName].type \in {"", "soft"}

\* The last body node is the root synthesized for the parent link of the
\* current joint.
JustRooted(i) ==
  /\ InLoop(i)
  /\ newSkeleton[i] # <<>>
  /\ newSkeleton[i][Len(newSkeleton[i])].joint.name = "root"
  /\ newSkeleton[i][Len(newSkeleton[i])].name = sdfJoints[i][it[i]].parentName

AppendsRoot(i) ==
  /\ Len(newSkeleton'[i]) = Len(newSkeleton[i]) + 1
  /\ newSkeleton'[i][Len(newSkeleton'[i])].joint.name = "root"

\* C22. A Free root is synthesized for a link only when the link is in the
\* link map, no body node has its name yet and no pending joint has it as
\* child; no link has two synthesized roots, and a link with a synthesized
\* root is the child of no registry joint, pending or materialized.
C22_RootOnlyForOrphan ==
  /\ [][AppendsRoot(1) =>
          LET link == newSkeleton'[1][Len(newSkeleton'[1])].name
          IN  /\ link \in DOMAIN sdfBodyNodes[1]
              /\ Positions(newSkeleton[1], link) = {}
              /\ link \notin DOMAIN sdfJoints[1]
              /\ link \notin DOMAIN registry[1]]_vars
  /\ [](\A n \in 1..Len(newSkeleton[1]) :
          newSkeleton[1][n].joint.name = "root" =>
            /\ Cardinality(Positions(newSkeleton[1], newSkeleton[1][n].name)) = 1
            /\ newSkeleton[1][n].name \notin DOMAIN registry[1]
            /\ newSkeleton[1][n].name \in DOMAIN sdfBodyNodes[1])

\* A root was just synthesized for the parent link of the current joint while
\* two joints are pending.
C22_Witness ==
  /\ JustRooted(1)
  /\ Cardinality(DOMAIN sdfJoints[1]) = 2
  /\ newSkeleton[1][Len(newSkeleton[1])].name \notin DOMAIN registry[1]

----------------------------------------------------------------------------
\* Redirects (Spec)

\* Everything invocation i holds but the iterator.
AllButCursor(i) ==
  <<pc[i], nLinks[i], jointsRead[i], sdfBodyNodes[i], sdfJoints[i], registry[i],
    newSkeleton[i], dterr[i], aborted[i], ret[i], linkQueue[i], jointQueue[i]>>

\* C23. A redirect changes only the cursor: the pass in which
\* getNextJointAndNodePair returns CONTINUE leaves the pending joints, the
\* skeleton and everything else as they are and moves the iterator to the
\* pending joint whose childName is the parentName of the joint it leaves; it
\* is taken only when no body node has that name; and the iterator moves
\* inside the loop in no other way, but back to the first pending joint when
\* a joint is removed.
C23_RedirectMovesCursorOnly ==
  /\ [][(InLoop(1) /\ NextPair(1).result = "CONTINUE") =>
          /\ AllButCursor(1)' = AllButCursor(1)
          /\ it'[1] \in DOMAIN sdfJoints[1]
          /\ sdfJoints[1][it'[1]].childName = sdfJoints[1][it[1]].parentName
          /\ Positions(newSkeleton[1], sdfJoints[1][it[1]].parentName) = {}]_vars
  /\ [][(InLoop(1) /\ pc'[1] = "loop" /\ it'[1] # it[1]) =>
          \/ NextPair(1).result = "CONTINUE"
          \/ sdfJoints'[1] = Erase(sdfJoints[1], it[1]) /\ it'[1] = Begin(sdfJoints'[1])]_vars
  /\ [](\A c \in DOMAIN sdfJoints[1] : sdfJoints[1][c].childName = c)

\* The iterator was redirected from the first pending joint to the joint of
\* its parent link, nothing being built yet.
C23_Witness ==
  /\ InLoop(1)
  /\ newSkeleton[1] = <<>>
  /\ sdfJoints[1] = registry[1]
  /\ it[1] # Begin(sdfJoints[1])
  /\ sdfJoints[1][Begin(sdfJoints[1])].parentName = it[1]

----------------------------------------------------------------------------
\* Factory failure (Spec)

\* The pass of the loop that starts in this state calls createPair, for the
\* current joint or for a synthesized root, and createPair returns false.
FactoryFails(i) ==
  /\ CallsCreatePair(i)
  /\ ~createPair(newSkeleton[i], NextPair(i).parent,
                 IF NextPair(i).result = "VALID" THEN sdfJoints[i][it[i]] ELSE RootJoint,
                 PairLink(i)).ok

\* C24. Factory failure: the pass in which createPair fails, for the current
\* registry joint or for a synthesized root, leaves the loop with the pending
\* joints, the current joint among them, and the skeleton as they are; from
\* then on no joint is removed and no body node is added, and readSkeleton
\* returns the body nodes built before the failure.
C24_FailureStopsAssembly ==
  /\ [][FactoryFails(1) =>
          /\ pc'[1] = "return"
          /\ aborted'[1]
          /\ sdfJoints'[1] = sdfJoints[1]
          /\ it[1] \in DOMAIN sdfJoints'[1]
          /\ newSkeleton'[1] = newSkeleton[1]]_vars
  /\ [][pc[1] \in {"return", "done"} =>
          /\ pc'[1] = "done"
          /\ sdfJoints'[1] = sdfJoints[1]
          /\ newSkeleton'[1] = newSkeleton[1]
          /\ ret'[1].bodies = newSkeleton[1]]_vars

\* readSkeleton returned after createPair failed on the type of the child link
\* of the first joint, with both joints still pending and nothing built.
C24_Witness ==
  /\ pc[1] = "done"
  /\ aborted[1]
  /\ dterr[1] # <<>>
  /\ dterr[1][Len(dterr[1])].kind = "unsupported link type"
  /\ Cardinality(DOMAIN sdfJoints[1]) = 2
  /\ newSkeleton[1] = <<>>

----------------------------------------------------------------------------
\* The registry built from joint elements (ElemSpec)

\* C25. Registry consistency: every key of the registry that readAllJoints
\* builds through readJoint is the name of a link of the link map, and
\* getNextJointAndNodePair never reports a missing child link.
C25_RegistryKeysAreLinks ==
  /\ DOMAIN sdfJoints[1] \subseteq DOMAIN sdfBodyNodes[1]
  /\ DOMAIN registry[1] \subseteq DOMAIN sdfBodyNodes[1]
  /\ \A n \in 1..Len(dterr[1]) : dterr[1][n].kind # "missing child link"

\* readJoint finds the links the element names as parent and child.
LinksResolve(i, elem) ==
  /\ elem.parent \in DOMAIN sdfBodyNodes[i] \cup {"world"}
  /\ elem.child \in DOMAIN sdfBodyNodes[i]

\* C26. readJoint returns a record with its properties set for every joint
\* type of the data model: the enumeration of a joint element of such a type,
\* whose parent and child resolve, does not end the process and yields a
\* record of a type for which readJoint made the properties object.
C26_PropertiesAreSet ==
  [][\A elem \in JointElems :
       (/\ elem \in jointQueue[1]
        /\ jointQueue'[1] = jointQueue[1] \ {elem}
        /\ elem.type \in SupportedJointTypes
        /\ LinksResolve(1, elem))
         => /\ pc'[1] # "crashed"
            /\ Len(jointsRead'[1]) = Len(jointsRead[1]) + 1
            /\ jointsRead'[1][Len(jointsRead'[1])].type \in TypesWithProperties]_vars

----------------------------------------------------------------------------
\* The pending joints and the body nodes

\* The positions of the skeleton whose body node was attached through the
\* registry joint of this child.
ThroughJoint(i, child) ==
  {n \in Positions(newSkeleton[i], child) : newSkeleton[i][n].joint = registry[i][child]}

\* The positions of the skeleton that hold a synthesized root.
RootPositions(i) ==
  {n \in 1..Len(newSkeleton[i]) :
     newSkeleton[i][n].joint.name = "root" /\ newSkeleton[i][n].joint.type = "free"}

\* The pending joints are joints of the registry, a registry joint is absent
\* from them if and only if its child is in the skeleton through that joint,
\* and the skeleton holds one body node for each removed joint and each
\* synthesized root.
PendingPartition(i) ==
  /\ DOMAIN sdfJoints[i] \subseteq DOMAIN registry[i]
  /\ \A c \in DOMAIN sdfJoints[i] : sdfJoints[i][c] = registry[i][c]
  /\ \A c \in DOMAIN registry[i] : c \notin DOMAIN sdfJoints[i] <=> ThroughJoint(i, c) # {}
  /\ Len(newSkeleton[i]) = Cardinality(DOMAIN registry[i] \ DOMAIN sdfJoints[i])
                           + Cardinality(RootPositions(i))

\* C27. Pending-set invariant: once the registry is built the pending joints
\* never grow and after every step they are a part of the registry, a joint
\* being absent exactly when its child link was materialized through it; the
\* number of body nodes is the number of removed joints plus that of the
\* synthesized roots.
C27_PendingPartition ==
  [][pc[1] \in {"loop", "return", "done"}
       => /\ DOMAIN sdfJoints'[1] \subseteq DOMAIN sdfJoints[1]
          /\ PendingPartition(1)
          /\ PendingPartition(1)']_vars

\* A root was synthesized, one joint is removed and one is still pending.
C27_Witness ==
  /\ pc[1] = "loop"
  /\ Cardinality(DOMAIN registry[1]) = 2
  /\ Cardinality(DOMAIN sdfJoints[1]) = 1
  /\ Cardinality(RootPositions(1)) = 1
  /\ Len(newSkeleton[1]) = 2

----------------------------------------------------------------------------
\* The body nodes of a finished skeleton

\* The names of the body nodes of the skeleton.
BodyNames(i) == {newSkeleton[i][n].name : n \in 1..Len(newSkeleton[i])}

\* The link is named as child or as parent by a joint of the registry.
Referenced(i, link) ==
  \/ link \in DOMAIN registry[i]
  \/ \E c \in DOMAIN registry[i] : registry[i][c].parentName = link

\* C28 as stated. Exact output set: after an assembly that ended without
\* abort the names of the body nodes are the children of the registry joints
\* and the orphan links the registry joints name as parent, and a link no
\* registry joint names is not in the skeleton.
C28_ExactOutputEveryLink ==
  Ended(1) =>
    /\ BodyNames(1) = DOMAIN registry[1]
                      \cup {link \in DOMAIN sdfBodyNodes[1] : OrphanParent(1, link)}
    /\ \A link \in DOMAIN sdfBodyNodes[1] :
         ~Referenced(1, link) => link \notin BodyNames(1)

\* C28 amended. Exact output set, the orphan links being those whose name is
\* not the root sentinel "world" (nor the empty string).
C28_ExactOutput ==
  Ended(1) =>
    /\ BodyNames(1) = DOMAIN registry[1]
                      \cup {link \in DOMAIN sdfBodyNodes[1] \ {"world", ""} :
                              OrphanParent(1, link)}
    /\ \A link \in DOMAIN sdfBodyNodes[1] :
         ~Referenced(1, link) => link \notin BodyNames(1)

\* An assembly ended without abort on a child, its orphaned parent and a
\* link that no joint names; the skeleton holds the first two.
C28_Witness ==
  /\ Ended(1)
  /\ Cardinality(DOMAIN sdfBodyNodes[1]) = 3
  /\ Cardinality(DOMAIN registry[1]) = 1
  /\ Cardinality(BodyNames(1)) = 2
  /\ \E link \in DOMAIN sdfBodyNodes[1] : ~Referenced(1, link)

----------------------------------------------------------------------------
\* Uri::removeDotSegments. A std::string is the sequence of its characters.

MaxPathLen == 5

PathChars == {"/", ".", "a"}

\* The paths removeDotSegments is called on.
Paths == UNION {[1..n -> PathChars] : n \in 0..MaxPathLen}

\* The characters of a string literal.
Str(s) ==
  CASE s = "../" -> <<".", ".", "/">>
    [] s = "./" -> <<".", "/">>
    [] s = "/." -> <<"/", ".">>
    [] s = "/./" -> <<"/", ".", "/">>
    [] s = "/.." -> <<"/", ".", ".">>
    [] s = "/../" -> <<"/", ".", ".", "/">>
    [] s = "." -> <<".">>
    [] s = ".." -> <<".", ".">>
    [] s = "/" -> <<"/">>
    [] s = "" -> <<>>

\* std::string::npos, as an index no string has.
npos == -1

\* s.substr(pos): the characters of s from index pos (counted from 0) on.
substr(s, pos) == SubSeq(s, pos + 1, Len(s))

\* s.substr(0, n): the first n characters of s, all of s when n is npos or
\* more than its length.
prefix(s, n) == IF n = npos \/ n > Len(s) THEN s ELSE SubSeq(s, 1, n)

\* s.find_first_of(ch, pos).
find_first_of(s, ch, pos) ==
  LET at == {k \in pos..(Len(s) - 1) : s[k + 1] = ch}
  IN  IF at = {} THEN npos ELSE CHOOSE k \in at : \A l \in at : k <= l

\* s.find_last_of(ch).
find_last_of(s, ch) ==
  LET at == {k \in 0..(Len(s) - 1) : s[k + 1] = ch}
  IN  IF at = {} THEN npos ELSE CHOOSE k \in at : \A l \in at : k >= l

\* Mutant of startsWith: the target has to be the prefix itself.
startsWithWhole(target, pre) == target = pre

startsWith(target, pre) == prefix(target, Len(pre)) = pre

\* The output buffer without its last segment and the "/" before it.
DropLastSegment(out) ==
  LET index == find_last_of(out, "/")
  IN  IF index # npos THEN prefix(out, index) ELSE <<>>

\* One iteration of the while loop on a non-empty input buffer.
Iteration(in, out) ==
  IF startsWith(in, Str("../")) THEN [input |-> substr(in, 3), output |-> out]
  ELSE IF startsWith(in, Str("./")) THEN [input |-> substr(in, 2), output |-> out]
  ELSE IF in = Str("/.") THEN [input |-> Str("/"), output |-> out]
  ELSE IF startsWith(in, Str("/./"))
  THEN [input |-> Str("/") \o substr(in, 3), output |-> out]
  ELSE IF in = Str("/..") THEN [input |-> Str("/"), output |-> DropLastSegment(out)]
  ELSE IF startsWith(in, Str("/../"))
  THEN [input |-> Str("/") \o substr(in, 4), output |-> DropLastSegment(out)]
  ELSE IF in = Str(".") \/ in = Str("..") THEN [input |-> <<>>, output |-> out]
  ELSE LET index == find_first_of(in, "/", 1)
       IN  [input |-> IF index # npos THEN substr(in, index) ELSE <<>>,
            output |-> out \o prefix(in, index)]

\* The value of the call with these buffers, of at most fuel iterations.
RECURSIVE removeDotSegmentsFrom(_, _, _)
removeDotSegmentsFrom(in, out, fuel) ==
  IF in = <<>> \/ fuel = 0 THEN out
  ELSE removeDotSegmentsFrom(Iteration(in, out).input, Iteration(in, out).output, fuel - 1)

removeDotSegments(p) == removeDotSegmentsFrom(p, <<>>, Len(p))

\* The body of the while loop is run once.
Iterate ==
  /\ upc = "while"
  /\ input # <<>>
  /\ input' = Iteration(input, output).input
  /\ output' = Iteration(input, output).output
  /\ UNCHANGED <<path, upc>>
  /\ UNCHANGED <<sdfVars, bulletVars>>

\* The input buffer is empty: the output buffer is returned.
UriReturn ==
  /\ upc = "while"
  /\ input = <<>>
  /\ upc' = "returned"
  /\ UNCHANGED <<path, input, output>>
  /\ UNCHANGED <<sdfVars, bulletVars>>

\* A call of removeDotSegments on any path, at the head of its loop.
UriInit ==
  /\ path \in Paths
  /\ input = path
  /\ output = <<>>
  /\ upc = "while"
  /\ readSkeletonEntry({1}, {}, {})
  /\ BulletCollisionDetector

UriNext == Iterate \/ UriReturn

\* The call is one synchronous loop: an iteration that can run does.
UriSpec == UriInit /\ [][UriNext]_vars /\ WF_vars(UriNext)

\* The string has a complete path segment "." or "..".
HasDotSegment(s) ==
  \E k \in 1..Len(s) : \E l \in k..Len(s) :
    /\ SubSeq(s, k, l) \in {Str("."), Str("..")}
    /\ k = 1 \/ s[k - 1] = "/"
    /\ l = Len(s) \/ s[l + 1] = "/"

\* C29. removeDotSegments returns on every path, each iteration of its loop
\* leaving the input buffer shorter; the string it returns has no complete
\* path segment "." or "..", and removeDotSegments maps that string to itself.
C29_RemoveDotSegments ==
  /\ [][upc = "while" /\ input # <<>> => Len(input') < Len(input)]_vars
  /\ <>(upc = "returned")
  /\ [](upc = "returned" =>
          /\ output = removeDotSegments(path)
          /\ ~HasDotSegment(output)
          /\ removeDotSegments(output) = output)

\* A call has returned "/" for the path "/a/..", whose dot segment climbed
\* over the segment before it.
C29_Witness ==
  /\ upc = "returned"
  /\ path = <<"/", "a", "/", ".", ".">>
  /\ HasDotSegment(path)
  /\ output = <<"/">>

----------------------------------------------------------------------------
\* BulletCollisionDetector. A collision node is named by its body node and
\* has one Bullet collision object; the position, normal and depth of a
\* contact are left out, a contact being told from the others by the manifold
\* and the contact point it was made from.

MaxManifolds == 2

MaxContacts == 1

\* The contact manifolds the dispatcher can hold after the discrete collision
\* detection of a world with these collision objects: no more than
\* MaxManifolds, each between two objects of the world and with no more than
\* MaxContacts contact points.
Manifolds(world) ==
  LET one == [body0 : world, body1 : world, numContacts : 0..MaxContacts]
      pairs == {m \in one : m.body0 # m.body1}
  IN  UNION {[1..n -> pairs] : n \in 0..MaxManifolds}

\* The contacts detectCollision makes of the contact points of one manifold,
\* the i-th of the dispatcher.
ManifoldContacts(m, i) ==
  [j \in 1..m.numContacts |->
     [bodyNode1 |-> m.body0, bodyNode2 |-> m.body1, point |-> <<i, j>>]]

\* The contacts it makes of the first n manifolds, in the order it adds them.
RECURSIVE ContactsOf(_, _)
ContactsOf(ms, n) ==
  IF n = 0 THEN <<>> ELSE ContactsOf(ms, n - 1) \o ManifoldContacts(ms[n], n)

\* The body nodes of a list of contacts.
BodiesOf(contacts) ==
  {contacts[k].bodyNode1 : k \in 1..Len(contacts)}
    \cup {contacts[k].bodyNode2 : k \in 1..Len(contacts)}

\* Mutant of clearAllContacts: the old contacts stay in the list.
clearAllContactsKeeps(contacts) == contacts

\* CollisionDetector::clearAllContacts, on the list of contacts.
clearAllContacts(contacts) == <<>>

\* createCollisionNode: the collision object of the new node is added to the
\* collision world.
createCollisionNode(b) ==
  /\ mBulletCollisionWorld' = mBulletCollisionWorld \cup {b}
  /\ lastCall' = "createCollisionNode"
  /\ UNCHANGED <<mCollisionNodes, mContacts, colliding, manifolds, detected, discarded>>
  /\ UNCHANGED <<sdfVars, uriVars>>

\* The base class puts the collision node made for a body node among the
\* registered ones.
RegisterCollisionNode(b) ==
  /\ b \in mBulletCollisionWorld
  /\ b \notin mCollisionNodes
  /\ mCollisionNodes' = mCollisionNodes \cup {b}
  /\ lastCall' = "addCollisionNode"
  /\ UNCHANGED <<mBulletCollisionWorld, mContacts, colliding, manifolds, detected,
                 discarded>>
  /\ UNCHANGED <<sdfVars, uriVars>>

\* destroyCollisionNode: the collision object of the node of the body node,
\* if it has one, is removed from the collision world.
destroyCollisionNode(b) ==
  /\ b \in mCollisionNodes
  /\ b \in mBulletCollisionWorld
  /\ mBulletCollisionWorld' = mBulletCollisionWorld \ {b}
  /\ lastCall' = "destroyCollisionNode"
  /\ UNCHANGED <<mCollisionNodes, mContacts, colliding, manifolds, detected, discarded>>
  /\ UNCHANGED <<sdfVars, uriVars>>

\* Mutant of detectCollision: the body nodes are not set to not colliding.
detectCollisionNoReset(ms) ==
  LET found == ContactsOf(ms, Len(ms))
      contacts == clearAllContacts(mContacts) \o found
  IN  /\ ms \in Manifolds(mBulletCollisionWorld)
      /\ manifolds' = ms
      /\ discarded' = Len(mContacts)
      /\ mContacts' = contacts
      /\ colliding' = [b \in BodyNodes |-> b \in BodiesOf(found) \/ colliding[b]]
      /\ detected' = (contacts # <<>>)
      /\ lastCall' = "detectCollision"
      /\ UNCHANGED <<mCollisionNodes, mBulletCollisionWorld>>
      /\ UNCHANGED <<sdfVars, uriVars>>

\* detectCollision, the dispatcher holding the manifolds ms after the discrete
\* collision detection.
detectCollision(ms) ==
  LET cleared == clearAllContacts(mContacts)
      reset == [b \in BodyNodes |-> IF b \in mCollisionNodes THEN FALSE ELSE colliding[b]]
      found == ContactsOf(ms, Len(ms))
      contacts == cleared \o found
  IN  /\ ms \in Manifolds(mBulletCollisionWorld)
      /\ manifolds' = ms
      /\ discarded' = Len(mContacts)
      /\ mContacts' = contacts
      /\ colliding' = [b \in BodyNodes |-> IF b \in BodiesOf(found) THEN TRUE ELSE reset[b]]
      /\ detected' = (contacts # <<>>)
      /\ lastCall' = "detectCollision"
      /\ UNCHANGED <<mCollisionNodes, mBulletCollisionWorld>>
      /\ UNCHANGED <<sdfVars, uriVars>>

\* A detector just constructed; no assembly and no path is at work.
BulletInit ==
  /\ BulletCollisionDetector
  /\ readSkeletonEntry({1}, {}, {})
  /\ UriIdle

BulletNext ==
  \/ \E b \in BodyNodes : createCollisionNode(b)
  \/ \E b \in BodyNodes : RegisterCollisionNode(b)
  \/ \E b \in BodyNodes : destroyCollisionNode(b)
  \/ \E ms \in Manifolds(mBulletCollisionWorld) : detectCollision(ms)

BulletSpec == BulletInit /\ [][BulletNext]_vars

\* C30. detectCollision: when a call of detectCollision has returned, after
\* whatever calls came before, the list of contacts holds the contacts made of
\* the manifolds of this detection and no other, the value returned is true
\* exactly when that list is not empty, and the body node of every registered
\* collision node is flagged as colliding exactly when it is a body node of
\* one of these contacts.
C30_DetectCollision ==
  lastCall = "detectCollision" =>
    /\ mContacts = ContactsOf(manifolds, Len(manifolds))
    /\ detected <=> mContacts # <<>>
    /\ \A b \in mCollisionNodes :
         colliding[b] <=> b \in BodiesOf(ContactsOf(manifolds, Len(manifolds)))

\* A detection that cleared the two contacts of the one before has returned
\* true on one contact, between two of three registered body nodes; the
\* third is not flagged.
C30_Witness ==
  /\ lastCall = "detectCollision"
  /\ discarded = 2
  /\ Len(mContacts) = 1
  /\ detected
  /\ mCollisionNodes = BodyNodes
  /\ \E b \in BodyNodes : ~colliding[b]

====
